---- MODULE Spec2Model ----
(***************************************************************************)
(* Model of the reachability crate (src/src/lib.rs): the macros            *)
(* unreachable_static!, internal_unreachable_static! and                   *)
(* unreachable_unchecked!, the extension traits OptionExt and ResultExt,   *)
(* and the build pipeline they rely on (macro expansion and dead-code      *)
(* elimination, link, run) as exercised by tests::dead_code,               *)
(* tests::unchecked_assert and tests/fail-black-box.rs.                    *)
(*                                                                         *)
(* A macro invocation is its token sequence: <<>> is `m!()`, <<"!">> is    *)
(* `m!(!)`, <<"!", ":", e>> is `m!(!: e)` and <<e>> is `m!(e)`.            *)
(***************************************************************************)
EXTENDS Naturals, Sequences, FiniteSets

VARIABLES
    feature_static,     \* cfg(feature = "static")
    debug_assertions,   \* cfg(debug_assertions)
    program,            \* the routines of the crate under build, in execution order
    phase,              \* "source", "compiled", "link_failed", "running",
                        \* "panicked", "ub", "ub_done", "exited"
    code,               \* per routine: what its assertion site expanded to
    eliminated,         \* the routines whose assertion site the optimizer removed
    pc,                 \* the routine being executed once the binary runs
    outcome,            \* per routine: "pending", "skipped", "returned", "panic", "ub"
    returned,           \* per routine: the value a container operation returned
    panic_msg,          \* the message of the diagnostic panic, once raised
    ub_effect           \* what undefined behaviour turned out to do

vars == <<feature_static, debug_assertions, program, phase, code, eliminated,
          pc, outcome, returned, panic_msg, ub_effect>>

\* ---------------------------------------------------------------- bounds
MaxSites == 2
MaxCalls == 2
MaxVal == 2

\* ---------------------------------------------------------------- values
\* a payload is a sequence: <<>> is no value, <<v>> is the value v
NoValue == <<>>
NoMsg == "no_message"
Values == 1..MaxVal
Msgs == {"intentional"}

\* the message core::unreachable!() reports when it is given none
DefaultMsg == "internal error: entered unreachable code"

\* #[link_name = "___unreachable_static___"]
LinkName == "___unreachable_static___"

\* -------------------------------------------------- what a site expands to
\* extern { fn unreachable_static() -> !; }  unsafe { unreachable_static(); }
ExternCall == [code |-> "extern_call", msg |-> LinkName]

\* $crate::_core::hint::unreachable_unchecked()
HintUnchecked == [code |-> "unreachable_unchecked", msg |-> NoMsg]

\* $crate::_core::unreachable! { $($tt)* }
core_unreachable(tt) ==
    [code |-> "panic", msg |-> IF tt = <<>> THEN DefaultMsg ELSE tt[1]]

RECURSIVE unreachable_static(_, _, _)

\* faulty variant: the panic variant is selected by the feature alone, cfg(not(feature = "static"))
internal_unreachable_static_feature_only(tt, static, debug) ==
    IF ~static
    THEN core_unreachable(tt)
    ELSE unreachable_static(<<"!">>, static, debug)

\* faulty variant: only the panic variant exists, the static feature selects nothing
internal_unreachable_static_always_panic(tt, static, debug) ==
    core_unreachable(tt)

\* faulty variant: the ordinary variant delegates to unreachable_unchecked!
internal_unreachable_static_via_unchecked(tt, static, debug) ==
    IF (~static) \/ debug
    THEN IF debug THEN core_unreachable(tt) ELSE HintUnchecked
    ELSE unreachable_static(<<"!">>, static, debug)

\* the two cfg-selected definitions of internal_unreachable_static!
internal_unreachable_static(tt, static, debug) ==
    IF (~static) \/ debug
    THEN core_unreachable(tt)
    ELSE unreachable_static(<<"!">>, static, debug)

\* faulty variant: the (!: $msg) arm obeys the cfg flags like the default arm
unreachable_static_forced_obeys_cfg(tt, static, debug) ==
    IF tt = <<"!">>
    THEN unreachable_static(<<"!", ":", "">>, static, debug)
    ELSE IF Len(tt) = 3 /\ tt[1] = "!" /\ tt[2] = ":"
    THEN IF static /\ ~debug THEN ExternCall ELSE core_unreachable(<<tt[3]>>)
    ELSE internal_unreachable_static(tt, static, debug)

\* faulty variant: the (!: $msg) arm calls hint::unreachable_unchecked(), not the extern fn
unreachable_static_forced_is_hint(tt, static, debug) ==
    IF tt = <<"!">>
    THEN unreachable_static(<<"!", ":", "">>, static, debug)
    ELSE IF Len(tt) = 3 /\ tt[1] = "!" /\ tt[2] = ":"
    THEN HintUnchecked
    ELSE internal_unreachable_static(tt, static, debug)

\* macro_rules! unreachable_static: arms (!), (!: $msg:expr), ($($tt:tt)*)
unreachable_static(tt, static, debug) ==
    IF tt = <<"!">>
    THEN unreachable_static(<<"!", ":", "">>, static, debug)
    ELSE IF Len(tt) = 3 /\ tt[1] = "!" /\ tt[2] = ":"
    THEN ExternCall
    ELSE internal_unreachable_static(tt, static, debug)

RECURSIVE unreachable_unchecked(_, _)

\* faulty variant: the general arm lost its #[cfg(debug_assertions)] block
unreachable_unchecked_no_debug_arm(tt, debug) ==
    HintUnchecked

\* faulty variant: the (!) arm panics under debug_assertions too
unreachable_unchecked_bang_checked(tt, debug) ==
    IF debug
    THEN core_unreachable(IF tt = <<"!">> THEN <<>> ELSE tt)
    ELSE HintUnchecked

\* macro_rules! unreachable_unchecked: arms (!), ($($tt:tt)*)
unreachable_unchecked(tt, debug) ==
    IF tt = <<"!">>
    THEN HintUnchecked
    ELSE IF debug
    THEN core_unreachable(tt)
    ELSE unreachable_unchecked(<<"!">>, debug)

\* ------------------------------------------------- container operations
\* A method is its `match`: per variant, either the value moved out or the
\* macro invocation of the arm.
ArmValue == [arm |-> "value", mac |-> "none", args |-> <<>>]
ArmSite(mac, tt) == [arm |-> "site", mac |-> mac, args |-> tt]

\* faulty variant: unwrap_static's None arm uses unreachable_unchecked!()
Option_unwrap_static_unchecked_arm ==
    [None |-> ArmSite("unreachable_unchecked", <<>>), Some |-> ArmValue]

\* impl<T> OptionExt for Option<T>
Option_unwrap_static ==
    [None |-> ArmSite("unreachable_static", <<>>), Some |-> ArmValue]

Option_unwrap_unchecked ==
    [None |-> ArmSite("unreachable_unchecked", <<>>), Some |-> ArmValue]

\* impl<T, E> OptionExt for Result<T, E>
Result_unwrap_static ==
    [Err |-> ArmSite("unreachable_static", <<>>), Ok |-> ArmValue]

Result_unwrap_unchecked ==
    [Err |-> ArmSite("unreachable_unchecked", <<>>), Ok |-> ArmValue]

\* impl<T, E> ResultExt for Result<T, E>
Result_unwrap_err_static ==
    [Ok |-> ArmSite("unreachable_static", <<>>), Err |-> ArmValue]

\* faulty variant: unwrap_err_unchecked's arms are those of unwrap_unchecked
Result_unwrap_err_unchecked_swapped ==
    [Err |-> ArmSite("unreachable_unchecked", <<>>), Ok |-> ArmValue]

Result_unwrap_err_unchecked ==
    [Ok |-> ArmSite("unreachable_unchecked", <<>>), Err |-> ArmValue]

Method(name) ==
    CASE name = "Option::unwrap_static" -> Option_unwrap_static
      [] name = "Option::unwrap_unchecked" -> Option_unwrap_unchecked
      [] name = "Result::unwrap_static" -> Result_unwrap_static
      [] name = "Result::unwrap_unchecked" -> Result_unwrap_unchecked
      [] name = "Result::unwrap_err_static" -> Result_unwrap_err_static
      [] name = "Result::unwrap_err_unchecked" -> Result_unwrap_err_unchecked

OptionMethods == {"Option::unwrap_static", "Option::unwrap_unchecked"}
ResultMethods == {"Result::unwrap_static", "Result::unwrap_unchecked",
                  "Result::unwrap_err_static", "Result::unwrap_err_unchecked"}
StaticMethods == {"Option::unwrap_static", "Result::unwrap_static",
                  "Result::unwrap_err_static"}
UncheckedMethods == (OptionMethods \cup ResultMethods) \ StaticMethods

Options == {[tag |-> "None", v |-> NoValue]} \cup {[tag |-> "Some", v |-> <<v>>] : v \in Values}
Results == {[tag |-> t, v |-> <<v>>] : t \in {"Ok", "Err"}, v \in Values}

\* ------------------------------------------------------------- routines
\* How control reaches the assertion site of a routine:
\*   "after_return"  return; unreachable_static!(!);            tests::dead_code
\*   "const_false"   if [0].is_empty() { unreachable_static!() }   the doc example
\*   "black_box"     match blackish_box(Some(1)) { Some(0) => .. } fail-black-box.rs
\*   "live"          unsafe { unreachable_unchecked!("intentional") }
\*                                                           tests::unchecked_assert
Flows == {"after_return", "const_false", "black_box", "live"}

StaticArgs == {<<>>, <<"!">>} \cup {<<m>> : m \in Msgs} \cup {<<"!", ":", m>> : m \in Msgs}
UncheckedArgs == {<<>>, <<"!">>} \cup {<<m>> : m \in Msgs}

MacroSites ==
    {[kind |-> "macro", mac |-> "unreachable_static", args |-> a, flow |-> f] :
        a \in StaticArgs, f \in Flows}
    \cup
    {[kind |-> "macro", mac |-> "unreachable_unchecked", args |-> a, flow |-> f] :
        a \in UncheckedArgs, f \in Flows}

Calls ==
    {[kind |-> "call", method |-> m, self |-> s] : m \in OptionMethods, s \in Options}
    \cup
    {[kind |-> "call", method |-> m, self |-> s] : m \in ResultMethods, s \in Results}

SeqsUpTo(S, n) == UNION {[1..k -> S] : k \in 1..n}

\* the arm of the match a call takes
Arm(r) == Method(r.method)[r.self.tag]

\* the macro invocation a routine contains
SiteOf(r) ==
    IF r.kind = "macro"
    THEN [mac |-> r.mac, args |-> r.args]
    ELSE LET m == Method(r.method)
             t == CHOOSE t \in DOMAIN m : m[t].arm = "site"
         IN  [mac |-> m[t].mac, args |-> m[t].args]

\* macro expansion of a site under the build configuration
Expand(site, static, debug) ==
    IF site.mac = "unreachable_static"
    THEN unreachable_static(site.args, static, debug)
    ELSE unreachable_unchecked(site.args, debug)

\* whether an execution of the routine arrives at its assertion site
Reached(r) ==
    IF r.kind = "macro" THEN r.flow = "live" ELSE Arm(r).arm = "site"

\* faulty variant: code after `return` is kept unless the optimizer chooses to drop it
MustEliminate_nothing(prog) == {}

\* sites that are never lowered to object code: statements after `return`
MustEliminate(prog) ==
    {i \in DOMAIN prog : prog[i].kind = "macro" /\ prog[i].flow = "after_return"}

\* sites the optimizer is able to prove dead (whether it does is its choice)
MayEliminate(prog) ==
    {i \in DOMAIN prog :
        \/ prog[i].kind = "macro" /\ prog[i].flow \in {"after_return", "const_false"}
        \/ prog[i].kind = "call" /\ ~Reached(prog[i])}

\* references to the undefined symbol that are left in the object code
UnresolvedRefs ==
    {i \in DOMAIN code : code[i].code = "extern_call" /\ i \notin eliminated}

\* ------------------------------------------------------------------ Init
InitBuild ==
    /\ feature_static \in BOOLEAN
    /\ debug_assertions \in BOOLEAN
    /\ phase = "source"
    /\ code = <<>>
    /\ eliminated = {}
    /\ pc = 0
    /\ outcome = [i \in DOMAIN program |-> "pending"]
    /\ returned = [i \in DOMAIN program |-> NoValue]
    /\ panic_msg = NoMsg
    /\ ub_effect = "none"

Init ==
    /\ program \in SeqsUpTo(MacroSites, MaxSites)
    /\ InitBuild

InitExt ==
    /\ program \in SeqsUpTo(Calls, MaxCalls)
    /\ InitBuild

\* --------------------------------------------------------------- actions
\* rustc: expand every macro under the cfg flags, then remove dead code
Compile ==
    /\ phase = "source"
    /\ code' = [i \in DOMAIN program |->
                  Expand(SiteOf(program[i]), feature_static, debug_assertions)]
    /\ \E E \in SUBSET MayEliminate(program) :
          /\ MustEliminate(program) \subseteq E
          /\ eliminated' = E
    /\ phase' = "compiled"
    /\ UNCHANGED <<feature_static, debug_assertions, program, pc, outcome,
                   returned, panic_msg, ub_effect>>

\* the linker resolves every symbol: the binary exists and starts
LinkOk ==
    /\ phase = "compiled"
    /\ UnresolvedRefs = {}
    /\ phase' = "running"
    /\ pc' = 1
    /\ UNCHANGED <<feature_static, debug_assertions, program, code, eliminated,
                   outcome, returned, panic_msg, ub_effect>>

\* ___unreachable_static___ has no definition: no binary
LinkFail ==
    /\ phase = "compiled"
    /\ UnresolvedRefs # {}
    /\ phase' = "link_failed"
    /\ UNCHANGED <<feature_static, debug_assertions, program, code, eliminated,
                   pc, outcome, returned, panic_msg, ub_effect>>

\* the routine completes without arriving at its assertion site
ExecReturn ==
    /\ phase = "running"
    /\ pc \in DOMAIN program
    /\ ~Reached(program[pc])
    /\ IF program[pc].kind = "call"
       THEN /\ outcome' = [outcome EXCEPT ![pc] = "returned"]
            /\ returned' = [returned EXCEPT ![pc] = program[pc].self.v]
       ELSE /\ outcome' = [outcome EXCEPT ![pc] = "skipped"]
            /\ UNCHANGED returned
    /\ pc' = pc + 1
    /\ UNCHANGED <<feature_static, debug_assertions, program, phase, code,
                   eliminated, panic_msg, ub_effect>>

\* the site is reached and is a core::unreachable!: diagnostic panic
ExecPanic ==
    /\ phase = "running"
    /\ pc \in DOMAIN program
    /\ Reached(program[pc])
    /\ code[pc].code = "panic"
    /\ outcome' = [outcome EXCEPT ![pc] = "panic"]
    /\ panic_msg' = code[pc].msg
    /\ phase' = "panicked"
    /\ UNCHANGED <<feature_static, debug_assertions, program, code, eliminated,
                   pc, returned, ub_effect>>

\* the site is reached and is hint::unreachable_unchecked(): undefined behaviour
ExecUB ==
    /\ phase = "running"
    /\ pc \in DOMAIN program
    /\ Reached(program[pc])
    /\ code[pc].code = "unreachable_unchecked"
    /\ outcome' = [outcome EXCEPT ![pc] = "ub"]
    /\ phase' = "ub"
    /\ UNCHANGED <<feature_static, debug_assertions, program, code, eliminated,
                   pc, returned, panic_msg, ub_effect>>

\* undefined behaviour has no defined outcome: any of them may be observed
UBHavoc ==
    /\ phase = "ub"
    /\ ub_effect' \in {"abort", "falls_through", "garbage_value"}
    /\ phase' = "ub_done"
    /\ UNCHANGED <<feature_static, debug_assertions, program, code, eliminated,
                   pc, outcome, returned, panic_msg>>

\* every routine has run
Exit ==
    /\ phase = "running"
    /\ pc = Len(program) + 1
    /\ phase' = "exited"
    /\ UNCHANGED <<feature_static, debug_assertions, program, code, eliminated,
                   pc, outcome, returned, panic_msg, ub_effect>>

Next ==
    \/ Compile
    \/ LinkOk
    \/ LinkFail
    \/ ExecReturn
    \/ ExecPanic
    \/ ExecUB
    \/ UBHavoc
    \/ Exit

Spec == Init /\ [][Next]_vars

SpecExt == InitExt /\ [][Next]_vars

\* ------------------------------------------------------------ properties
IsForced(tt) == tt = <<"!">> \/ (Len(tt) = 3 /\ tt[1] = "!" /\ tt[2] = ":")

MsgOf(tt) == IF tt = <<>> THEN DefaultMsg ELSE tt[1]

Compiled == phase # "source"

Linked == phase \notin {"source", "compiled"}

BinaryExists == phase \in {"running", "panicked", "ub", "ub_done", "exited"}

StaticSites ==
    {i \in DOMAIN program :
        program[i].kind = "macro" /\ program[i].mac = "unreachable_static"}

NonForcedSites == {i \in StaticSites : ~IsForced(program[i].args)}

ForcedSites == {i \in StaticSites : IsForced(program[i].args)}

UncheckedSites ==
    {i \in DOMAIN program :
        program[i].kind = "macro" /\ program[i].mac = "unreachable_unchecked"}

BangSites == {i \in UncheckedSites : program[i].args = <<"!">>}

GeneralSites == {i \in UncheckedSites : program[i].args # <<"!">>}

LiveSites ==
    {i \in DOMAIN program : program[i].kind = "macro" /\ program[i].flow = "live"}

\* execution arrived at routine i and did something there
Executed(i) == outcome[i] # "pending"

\* C1: with the static feature off or debug_assertions on, a non-forced
\* unreachable_static! expands to a panic carrying its message; it leaves no
\* reference to the undefined symbol, and when execution arrives at it the
\* program panics with that message: never undefined behaviour, never past
\* the site.
C1_NonForcedPanics ==
    ((~feature_static \/ debug_assertions) /\ Compiled) =>
        \A i \in NonForcedSites :
            /\ code[i] = [code |-> "panic", msg |-> MsgOf(program[i].args)]
            /\ i \notin UnresolvedRefs
            /\ outcome[i] # "ub"
            /\ i \in LiveSites =>
                  /\ pc <= i
                  /\ Executed(i) =>
                        /\ outcome[i] = "panic"
                        /\ phase = "panicked"
                        /\ panic_msg = MsgOf(program[i].args)

C1_Witness ==
    /\ feature_static
    /\ debug_assertions
    /\ \E i \in NonForcedSites :
          /\ program[i].args = <<"intentional">>
          /\ outcome[i] = "panic"
          /\ panic_msg = "intentional"

\* C2: with the static feature on and debug_assertions off, every non-forced
\* unreachable_static! is a call of the undefined symbol; once the link step
\* has run, a binary exists exactly when every unreachable_static! site was
\* eliminated, and no execution arrives at a site that survived.
C2_StaticLinkGate ==
    (feature_static /\ ~debug_assertions /\ Compiled) =>
        /\ \A i \in NonForcedSites : code[i] = ExternCall
        /\ Linked => (BinaryExists <=> StaticSites \subseteq eliminated)
        /\ Linked => (phase = "link_failed" <=> ~(StaticSites \subseteq eliminated))
        /\ \A i \in StaticSites : i \notin eliminated => ~BinaryExists /\ ~Executed(i)

C2_Witness ==
    /\ feature_static
    /\ ~debug_assertions
    /\ phase = "link_failed"
    /\ \E i \in NonForcedSites, j \in NonForcedSites :
          /\ program[i].flow = "black_box"
          /\ i \notin eliminated
          /\ j \in eliminated
          /\ program[j].flow = "const_false"

\* C3: the forced forms unreachable_static!(!) and unreachable_static!(!: msg)
\* are a call of the undefined symbol under all four settings of the two
\* flags, never a panic; a forced site that survives keeps the build from
\* linking.
C3_ForcedAlwaysLinkPath ==
    Compiled =>
        \A i \in ForcedSites :
            /\ code[i] = ExternCall
            /\ code[i].code # "panic"
            /\ outcome[i] \notin {"panic", "ub"}
            /\ i \notin eliminated => ~BinaryExists

C3_Witness ==
    /\ ~feature_static
    /\ debug_assertions
    /\ phase = "link_failed"
    /\ \E i \in ForcedSites :
          /\ program[i].args = <<"!", ":", "intentional">>
          /\ i \notin eliminated
          /\ code[i] = ExternCall

\* the calls whose container holds what the operation extracts
PopulatedCalls ==
    {i \in DOMAIN program :
        /\ program[i].kind = "call"
        /\ \/ /\ program[i].method \in {"Option::unwrap_static", "Option::unwrap_unchecked"}
              /\ program[i].self.tag = "Some"
           \/ /\ program[i].method \in {"Result::unwrap_static", "Result::unwrap_unchecked"}
              /\ program[i].self.tag = "Ok"
           \/ /\ program[i].method \in {"Result::unwrap_err_static", "Result::unwrap_err_unchecked"}
              /\ program[i].self.tag = "Err"}

\* the calls whose container is the variant the operation asserts against
AssertedCalls ==
    {i \in DOMAIN program : program[i].kind = "call"} \ PopulatedCalls

\* C4: in every build mode, an extension operation applied to a container
\* holding the value it extracts returns exactly that value: the call neither
\* panics nor is undefined behaviour, and execution goes on after it.
C4_PopulatedReturnsValue ==
    \A i \in PopulatedCalls :
        /\ outcome[i] \in {"pending", "returned"}
        /\ returned[i] \in {NoValue, program[i].self.v}
        /\ Executed(i) => returned[i] = program[i].self.v /\ pc > i
        /\ (phase = "running" /\ pc = i) => ENABLED ExecReturn

C4_Witness ==
    /\ phase = "exited"
    /\ \E i \in PopulatedCalls, j \in PopulatedCalls :
          /\ program[i].method = "Option::unwrap_unchecked"
          /\ program[j].method = "Result::unwrap_err_static"
          /\ returned[i] = program[i].self.v
          /\ returned[j] = program[j].self.v
          /\ returned[i] # returned[j]

StaticPrimitive ==
    IF (~feature_static) \/ debug_assertions
    THEN [code |-> "panic", msg |-> DefaultMsg]
    ELSE ExternCall

\* what the general unreachable_unchecked!() is in each build mode
UncheckedPrimitive ==
    IF debug_assertions
    THEN [code |-> "panic", msg |-> DefaultMsg]
    ELSE HintUnchecked

\* C6: an extension operation applied to the variant it asserts against
\* returns no value; the *_static operations end as the non-forced
\* unreachable_static!() does in the build mode (panic, or no binary under
\* static without debug_assertions), the *_unchecked operations as
\* unreachable_unchecked!() does (panic under debug_assertions, undefined
\* behaviour without).
C6_AssertedVariantOutcome ==
    Compiled =>
        \A i \in AssertedCalls :
            /\ program[i].method \in StaticMethods => code[i] = StaticPrimitive
            /\ program[i].method \in UncheckedMethods => code[i] = UncheckedPrimitive
            /\ i \notin eliminated
            /\ returned[i] = NoValue
            /\ pc <= i
            /\ outcome[i] \in {"pending", "panic", "ub"}
            /\ code[i].code = "extern_call" => ~BinaryExists
            /\ outcome[i] = "panic" <=> (Executed(i) /\ code[i].code = "panic")
            /\ outcome[i] = "ub" <=> (Executed(i) /\ code[i].code = "unreachable_unchecked")
            /\ (phase = "running" /\ pc = i) => (ENABLED ExecPanic \/ ENABLED ExecUB)

C6_Witness ==
    /\ debug_assertions
    /\ phase = "panicked"
    /\ \E i \in AssertedCalls :
          /\ program[i].method = "Option::unwrap_static"
          /\ program[i].self.tag = "None"
          /\ outcome[i] = "panic"
          /\ returned[i] = NoValue

AfterReturnSites ==
    {i \in StaticSites : program[i].flow = "after_return"}

C9_ThreeOutcomes ==
    Compiled =>
        \A i \in LiveSites :
            /\ i \notin eliminated
            /\ code[i].code \in {"panic", "extern_call", "unreachable_unchecked"}
            /\ pc <= i
            /\ outcome[i] \in {"pending", "panic", "ub"}
            /\ code[i].code = "extern_call" => ~BinaryExists
            /\ code[i].code = "unreachable_unchecked" => i \in UncheckedSites
            /\ outcome[i] = "ub" => i \in UncheckedSites
            /\ (phase = "running" /\ pc = i) => (ENABLED ExecPanic \/ ENABLED ExecUB)
            /\ (phase = "exited") => FALSE

C9_Witness ==
    /\ ~debug_assertions
    /\ feature_static
    /\ phase = "ub_done"
    /\ ub_effect = "falls_through"
    /\ \E i \in LiveSites \cap GeneralSites : outcome[i] = "ub"

\* C10 as stated: with the static feature off or debug_assertions on, the
\* non-forced unreachable_static! is what unreachable_unchecked! with the same
\* arguments is in that configuration.
C10_StaticIsUnchecked ==
    ((~feature_static \/ debug_assertions) /\ Compiled) =>
        \A i \in NonForcedSites :
            code[i] = unreachable_unchecked(program[i].args, debug_assertions)

\* C10, amended: with the static feature off or debug_assertions on, the
\* non-forced unreachable_static! is core::unreachable!, a diagnostic panic
\* whatever debug_assertions is; it is what unreachable_unchecked! with the
\* same arguments is exactly when debug_assertions is on, and without it the
\* one panics where the other is undefined behaviour.
C10_StaticIsCheckedPanic ==
    ((~feature_static \/ debug_assertions) /\ Compiled) =>
        \A i \in NonForcedSites :
            /\ code[i].code = "panic"
            /\ code[i].msg = MsgOf(program[i].args)
            /\ (code[i] = unreachable_unchecked(program[i].args, debug_assertions))
                  <=> debug_assertions
            /\ ~debug_assertions =>
                  unreachable_unchecked(program[i].args, debug_assertions) = HintUnchecked
            /\ Executed(i) /\ i \in LiveSites => outcome[i] = "panic"

C10_Witness ==
    /\ ~feature_static
    /\ ~debug_assertions
    /\ phase = "panicked"
    /\ \E i \in NonForcedSites \cap LiveSites :
          /\ program[i].args = <<>>
          /\ outcome[i] = "panic"
          /\ panic_msg = DefaultMsg

====
